---- MODULE Spec2Model ----
(***************************************************************************)
(* State-machine model of the WhatsApp session gateway (src/server.js) and *)
(* of its push-only variant (src/unnamed/part_000).                        *)
(*                                                                         *)
(* Node runs every handler to its next `await` without interruption, so    *)
(* each action below is one such run: a request handler up to its first    *)
(* await, the resumption of a suspended handler, one protocol-engine       *)
(* event callback, or one timer tick.                                       *)
(***************************************************************************)
EXTENDS Integers, Sequences, FiniteSets, TLC

\* ---------------------------------------------------------------- bounds
\* Session identifiers are ordinary names: the registries are plain
\* objects, and the names a plain object inherits ('__proto__',
\* 'constructor', ...) are not among the identifiers modelled here.
Sessions == {"s1", "s2"}
\* The sessions whose callers and sockets act in Spec.
Tenants == {"s1"}
SocketIds == {"c1", "c2"}
\* The push clients that act where one is enough.
Clients == {"c1"}
QrPayloads == {"qrA", "qrB"}
\* Sockets (makeWASocket instances) created in one run.
MaxHandles == 2
\* Inbound messages kept by the filter that the engine delivers in one run.
MaxMessages == 2

\* ------------------------------------------------------ program constants
BufferLimit == 50
MaxAttempts == 10
LoggedOut == 401

NoSocket == "null"
\* sock.user before the engine knows the account.
NoUser == [id |-> << >>]
NoQr == "undefined"
NoConn == "undefined"
NoCode == 0
StatusCodes == {LoggedOut, 428, NoCode}

VARIABLES
    connections,     \* server.js:48   sessionId -> handle (index into handles)
    recentMessages,  \* server.js:50   sessionId -> sequence of messages
    qrCodes,         \* server.js:52   sessionId -> data URL
    handles,         \* every socket makeWASocket has returned, in creation order
    starts,          \* startWhatsAppConnection calls suspended at line 64
    renders,         \* connection.update callbacks suspended at line 84
    logouts,         \* disconnect handlers suspended at line 249
    pollers,         \* running checkQR intervals with their attempts
    sends,           \* send-message handlers suspended at line 276
    nextMsg,         \* number the engine gives its next kept inbound message
    out,             \* response and push events written by the last step
    callers,         \* callers of settled starts that have not gone on yet
    arrived,         \* history: messages kept since the buffer was last emptied
    returned         \* history: ids of messages some drain has returned

vars == <<connections, recentMessages, qrCodes, handles, starts, renders,
          logouts, pollers, sends, callers, nextMsg, out, arrived, returned>>

\* ------------------------------------------------------- JS object helpers
\* obj[k] = v
Put(obj, k, v) == [x \in DOMAIN obj \cup {k} |-> IF x = k THEN v ELSE obj[x]]
\* delete obj[k]
Delete(obj, k) == [x \in DOMAIN obj \ {k} |-> obj[x]]

BagAdd(b, x) == [b EXCEPT ![x] = @ + 1]
BagRemove(b, x) == [b EXCEPT ![x] = @ - 1]
BagSize(b) == LET S == {x \in DOMAIN b : b[x] > 0}
                  Sum[T \in SUBSET S] ==
                      IF T = {} THEN 0
                      ELSE LET x == CHOOSE y \in T : TRUE
                           IN b[x] + Sum[T \ {x}]
              IN Sum[S]

StartRecs == [sessionId : Sessions, socketId : SocketIds \cup {NoSocket},
              origin : {"http", "push", "reconnect"}]
PollerRecs == [sessionId : Sessions, attempts : 0..MaxAttempts]

\* ------------------------------------------------------------ outputs
NoResp == [op |-> "none"]
Silent == [resp |-> NoResp, emits |-> <<>>]
Respond(r) == [resp |-> r, emits |-> <<>>]
Event(to, event, payload) == [to |-> to, event |-> event, payload |-> payload]

\* An emit that goes to the first client whoever started the session.
EmitToFirstClient(r, socketId, event, payload) ==
    [r EXCEPT !.emits = Append(@, Event("c1", event, payload))]

\* io.to(socketId).emit(...) guarded by `if (socketId)`.
EmitIf(r, socketId, event, payload) ==
    IF socketId # NoSocket
    THEN [r EXCEPT !.emits = Append(@, Event(socketId, event, payload))]
    ELSE r

\* ------------------------------------------------------------ engine
\* qrcode.toDataURL(qr): the rendering of a pairing payload as a data URL.
toDataURL(qr) == <<"data:image/png;base64", qr>>

\* sock.user once the engine has opened the connection.
Me(sessionId) == [id |-> <<sessionId, "@s.whatsapp.net">>]

QrUpdate(qr) == [qr |-> qr, connection |-> NoConn, statusCode |-> NoCode]
OpenUpdate == [qr |-> NoQr, connection |-> "open", statusCode |-> NoCode]
CloseUpdate(code) == [qr |-> NoQr, connection |-> "close", statusCode |-> code]
Updates == {QrUpdate(q) : q \in QrPayloads} \cup {OpenUpdate}
           \cup {CloseUpdate(c) : c \in StatusCodes}

\* An inbound message: the number the engine gave it and its key
\* ("none" for a message without key, else whether this account sent it).
Message(id, kind) ==
    [id |-> id,
     key |-> IF kind = "nokey" THEN [present |-> FALSE, fromMe |-> FALSE]
             ELSE [present |-> TRUE, fromMe |-> (kind = "fromMe")]]
Kinds == {"in", "fromMe", "nokey"}

Live(h) == handles[h].conn # "close"
HandleIds == 1..Len(handles)
HandlesOf(sessionId) == {h \in HandleIds : handles[h].sessionId = sessionId}
LiveHandlesOf(sessionId) == {h \in HandlesOf(sessionId) : Live(h)}

\* Sockets created plus sockets about to be created.
Started == Len(handles) + BagSize(starts)

Init ==
    /\ connections = << >>
    /\ recentMessages = << >>
    /\ qrCodes = << >>
    /\ handles = << >>
    /\ starts = [s \in StartRecs |-> 0]
    /\ renders = {}
    /\ logouts = {}
    /\ pollers = [p \in PollerRecs |-> 0]
    /\ sends = {}
    /\ callers = << >>
    /\ nextMsg = 1
    /\ out = Silent
    /\ arrived = [s \in Sessions |-> << >>]
    /\ returned = {}

\* ------------------------------------------------- startWhatsAppConnection
\* Lines 55-64: the synchronous head of startWhatsAppConnection, which ends
\* suspended on useMultiFileAuthState.
startWhatsAppConnection(pending, sessionId, socketId, origin) ==
    BagAdd(pending, [sessionId |-> sessionId, socketId |-> socketId,
                     origin |-> origin])

\* Lines 70-75: the socket makeWASocket returns.
makeWASocket(sessionId, socketId) ==
    [sessionId |-> sessionId, socketId |-> socketId,
     conn |-> "connecting", user |-> NoUser, code |-> NoCode]

\* Line 166: connections[sessionId] = sock.
StoreConnection(conns, sessionId, sock) == Put(conns, sessionId, sock)

\* Lines 64-167, the tail of startWhatsAppConnection: credentials loaded,
\* socket built, callbacks registered, handle stored.  The promise of the
\* call resolves and its caller (server.js:201, server.js:291) goes on in a
\* later turn; the reconnect call of line 129 is not awaited and has none.
StartResolve(st) ==
    /\ starts[st] > 0
    /\ handles' = Append(handles, makeWASocket(st.sessionId, st.socketId))
    /\ connections' = StoreConnection(connections, st.sessionId, Len(handles) + 1)
    /\ starts' = BagRemove(starts, st)
    /\ callers' = IF st.origin = "reconnect"
                  THEN callers
                  ELSE Append(callers, [sessionId |-> st.sessionId,
                                        socketId |-> st.socketId,
                                        origin |-> st.origin, ok |-> TRUE])
    /\ out' = Silent
    /\ UNCHANGED <<recentMessages, qrCodes, renders, logouts, pollers, nextMsg,
                   arrived, returned, sends>>

\* useMultiFileAuthState rejects or makeWASocket throws: the promise of the
\* call is rejected, for its caller to catch in a later turn; the promise of
\* the reconnect call of line 129 is rejected with nobody to handle it.
StartReject(st) ==
    /\ starts[st] > 0
    /\ starts' = BagRemove(starts, st)
    /\ callers' = IF st.origin = "reconnect"
                  THEN callers
                  ELSE Append(callers, [sessionId |-> st.sessionId,
                                        socketId |-> st.socketId,
                                        origin |-> st.origin, ok |-> FALSE])
    /\ out' = IF st.origin = "reconnect"
              THEN Respond([op |-> "unhandledRejection",
                            sessionId |-> st.sessionId,
                            error |-> "load failed"])
              ELSE Silent
    /\ UNCHANGED <<connections, recentMessages, qrCodes, handles, renders,
                   logouts, pollers, nextMsg, arrived, returned, sends>>

\* The caller of a settled start goes on, the callers in the order in which
\* their starts settled: server.js:203-217 starts the poller or
\* server.js:218-221 answers 500 (HTTP); server.js:292 acknowledges or
\* server.js:293-296 reports the failure to the socket (push).
StartSessionResume ==
    /\ callers # << >>
    /\ callers' = Tail(callers)
    /\ LET c == Head(callers)
       IN /\ pollers' = IF c.origin = "http" /\ c.ok
                        THEN BagAdd(pollers, [sessionId |-> c.sessionId,
                                              attempts |-> 0])
                        ELSE pollers
          /\ out' = CASE c.origin = "http" /\ c.ok -> Silent
                      [] c.origin = "http" /\ ~c.ok ->
                           Respond([op |-> "start-session",
                                    sessionId |-> c.sessionId,
                                    status |-> 500, error |-> "load failed"])
                      [] OTHER ->
                           [resp |-> NoResp,
                            emits |-> <<Event(c.socketId, "session-started",
                                              IF c.ok
                                              THEN [success |-> TRUE]
                                              ELSE [success |-> FALSE,
                                                    error |-> "load failed"])>>]
    /\ UNCHANGED <<connections, recentMessages, qrCodes, handles, starts,
                   renders, logouts, sends, nextMsg, arrived, returned>>

\* A request handler and a timer tick run in a turn of their own, which
\* begins when every continuation that was ready has run.
OwnTurn == callers = << >>

\* ------------------------------------------- connection.update (78-132)
\* The part of the program state the callback reads and writes.
Registry ==
    [connections |-> connections, recentMessages |-> recentMessages,
     qrCodes |-> qrCodes, starts |-> starts, arrived |-> arrived,
     emits |-> << >>]

\* Lines 86-92, after the rendering of line 84 has resolved.
QrBranch(r, h, update) ==
    IF update.qr # NoQr
    THEN EmitIf([r EXCEPT !.qrCodes = Put(@, handles[h].sessionId,
                                          toDataURL(update.qr))],
                handles[h].socketId, "qr", [qrCode |-> toDataURL(update.qr)])
    ELSE r

\* Lines 95-107.
OpenBranch(r, h, update) ==
    IF update.connection = "open"
    THEN EmitIf([r EXCEPT !.qrCodes = Delete(@, handles[h].sessionId)],
                handles[h].socketId, "connection-open",
                [user |-> Me(handles[h].sessionId), connected |-> TRUE])
    ELSE r

\* Line 111.
ShouldReconnect(statusCode) == statusCode # LoggedOut

\* A teardown that empties the three registries.
RemoveEverySession(r, sessionId) ==
    [r EXCEPT !.connections = << >>,
              !.qrCodes = << >>,
              !.recentMessages = << >>,
              !.arrived = [s \in Sessions |-> << >>]]

\* Lines 122-126.
RemoveSession(r, sessionId) ==
    [r EXCEPT !.connections = Delete(@, sessionId),
              !.qrCodes = Delete(@, sessionId),
              !.recentMessages = Delete(@, sessionId),
              !.arrived = [@ EXCEPT ![sessionId] = << >>]]

\* Lines 109-131.
CloseBranch(r, h, update) ==
    IF update.connection = "close"
    THEN LET sessionId == handles[h].sessionId
             socketId == handles[h].socketId
             shouldReconnect == ShouldReconnect(update.statusCode)
             told == EmitIf(r, socketId, "connection-close",
                            [shouldReconnect |-> shouldReconnect,
                             statusCode |-> update.statusCode])
         IN IF ~shouldReconnect
            THEN RemoveSession(told, sessionId)
            ELSE [told EXCEPT !.starts =
                      startWhatsAppConnection(@, sessionId, socketId, "reconnect")]
    ELSE r

\* What the engine does to its own socket when it reports `update`: an open
\* socket knows its account, a closed one the status code it closed with.
EngineAfter(h, update) ==
    CASE update.connection = "open" ->
             [handles EXCEPT ![h].conn = "open",
                             ![h].user = Me(handles[h].sessionId)]
      [] update.connection = "close" ->
             [handles EXCEPT ![h].conn = "close", ![h].code = update.statusCode]
      [] OTHER -> handles

\* The engine reports QR payloads while pairing, an open once, a close once.
EngineMayEmit(h, update) ==
    /\ h \in HandleIds
    /\ Live(h)
    /\ update.qr # NoQr => handles[h].conn = "connecting"
    /\ update.connection = "open" => handles[h].conn = "connecting"

Commit(r) ==
    /\ connections' = r.connections
    /\ recentMessages' = r.recentMessages
    /\ qrCodes' = r.qrCodes
    /\ starts' = r.starts
    /\ arrived' = r.arrived
    /\ out' = [resp |-> NoResp, emits |-> r.emits]

\* Lines 78-132 for one update: with a QR payload the callback suspends at
\* line 84; without one it runs the open and close branches at once.
ConnectionUpdate(h, update) ==
    /\ EngineMayEmit(h, update)
    /\ IF update.qr # NoQr
       THEN /\ renders' = renders \cup {[handle |-> h, update |-> update]}
            /\ out' = Silent
            /\ UNCHANGED <<connections, recentMessages, qrCodes, starts, arrived>>
       ELSE /\ Commit(CloseBranch(OpenBranch(Registry, h, update), h, update))
            /\ UNCHANGED renders
    /\ handles' = EngineAfter(h, update)
    /\ UNCHANGED <<logouts, pollers, nextMsg, returned, sends, callers>>

\* Lines 84-131: qrcode.toDataURL has resolved and the callback goes on.
RenderResolve(rd) ==
    /\ rd \in renders
    /\ renders' = renders \ {rd}
    /\ Commit(CloseBranch(OpenBranch(QrBranch(Registry, rd.handle, rd.update),
                                     rd.handle, rd.update),
                          rd.handle, rd.update))
    /\ UNCHANGED <<handles, logouts, pollers, nextMsg, returned, sends,
                   callers>>

\* --------------------------------------------- messages.upsert (138-163)
\* A filter that forgets the fromMe test.
KeptFromAnyone(msg) == msg.key.present

\* Line 148: the filter `msg.key && !msg.key.fromMe`.
Kept(msg) == msg.key.present /\ ~msg.key.fromMe
newMessages(messages) == SelectSeq(messages, Kept)

\* Array.prototype.slice(-n).
SliceLast(seq, n) ==
    IF Len(seq) > n THEN SubSeq(seq, Len(seq) - n + 1, Len(seq)) ELSE seq

\* A trim that keeps the oldest 50 (slice(0, 50)) instead of the newest.
PushTrimKeepOldest(buffer, kept) ==
    IF Len(buffer \o kept) > BufferLimit
    THEN SubSeq(buffer \o kept, 1, BufferLimit)
    ELSE buffer \o kept

\* Lines 150-155: push(...newMessages), then the trim to the last 50.
PushTrim(buffer, kept) ==
    IF Len(buffer \o kept) > BufferLimit
    THEN SliceLast(buffer \o kept, BufferLimit)
    ELSE buffer \o kept

\* Lines 142-157: the buffer after one batch.
BufferAfter(buffers, sessionId, data) ==
    LET created == IF sessionId \in DOMAIN buffers
                   THEN buffers
                   ELSE Put(buffers, sessionId, << >>)
    IN IF data.isArray /\ Len(newMessages(data.messages)) > 0
       THEN Put(created, sessionId,
                PushTrim(created[sessionId], newMessages(data.messages)))
       ELSE created

\* The batch the engine delivers: kept messages are numbered from `n` on in
\* arrival order, the others carry number 0.
RECURSIVE Number(_, _)
Number(shape, n) ==
    IF shape = << >> THEN << >>
    ELSE IF Head(shape) = "in"
         THEN <<Message(n, "in")>> \o Number(Tail(shape), n + 1)
         ELSE <<Message(0, Head(shape))>> \o Number(Tail(shape), n)
Batch(shape, n) == [isArray |-> TRUE, messages |-> Number(shape, n)]
NotABatch == [isArray |-> FALSE, messages |-> << >>]
Shapes == {<<k>> : k \in Kinds} \cup {<<"in", "in">>, <<"fromMe", "in">>}

\* Lines 138-163.
MessagesUpsert(h, data) ==
    /\ h \in HandleIds
    /\ handles[h].conn = "open"
    /\ LET sessionId == handles[h].sessionId
           kept == IF data.isArray THEN newMessages(data.messages) ELSE << >>
       IN /\ recentMessages' = BufferAfter(recentMessages, sessionId, data)
          /\ arrived' = [arrived EXCEPT ![sessionId] = @ \o kept]
          /\ nextMsg' = nextMsg + Len(kept)
          /\ out' = EmitIf(Silent, handles[h].socketId, "messages", data)
    /\ UNCHANGED <<connections, qrCodes, handles, starts, renders, logouts,
                   pollers, returned, sends, callers>>

\* ------------------------------------------------------------ HTTP routes
\* GET /api/status/:sessionId (173-185).
StatusBody(sessionId) ==
    IF sessionId \in DOMAIN connections
    THEN [op |-> "status", sessionId |-> sessionId, status |-> 200,
          connected |-> TRUE,
          user |-> IF handles[connections[sessionId]].user # NoUser
                   THEN handles[connections[sessionId]].user
                   ELSE [id |-> <<"unknown">>]]
    ELSE [op |-> "status", sessionId |-> sessionId, status |-> 200,
          connected |-> FALSE]

GetStatus(sessionId) ==
    /\ OwnTurn
    /\ out' = Respond(StatusBody(sessionId))
    /\ UNCHANGED <<connections, recentMessages, qrCodes, handles, starts,
                   renders, logouts, pollers, nextMsg, arrived,
                   returned, sends, callers>>

\* Lines 193-198: the answer to a start request for a stored session.
AlreadyActive(sessionId) ==
    [op |-> "start-session", sessionId |-> sessionId, status |-> 200,
     connected |-> TRUE, message |-> "Sessao ja esta ativa"]

\* POST /api/start-session/:sessionId (188-201), up to the await of line 201.
HttpStartSession(sessionId) ==
    /\ OwnTurn
    /\ IF sessionId \in DOMAIN connections
       THEN /\ out' = Respond(AlreadyActive(sessionId))
            /\ UNCHANGED starts
       ELSE /\ starts' = startWhatsAppConnection(starts, sessionId, NoSocket, "http")
            /\ out' = Silent
    /\ UNCHANGED <<connections, recentMessages, qrCodes, handles, renders,
                   logouts, pollers, nextMsg, arrived, returned, sends,
                   callers>>

\* An interval that answers but is never cleared.
checkQRNeverCleared(p) ==
    /\ OwnTurn
    /\ pollers[p] > 0
    /\ IF p.sessionId \in DOMAIN qrCodes
       THEN /\ pollers' = pollers
            /\ out' = Respond([op |-> "start-session", sessionId |-> p.sessionId,
                               status |-> 200, qrCode |-> qrCodes[p.sessionId]])
       ELSE IF p.attempts >= MaxAttempts
       THEN /\ pollers' = pollers
            /\ out' = Respond([op |-> "start-session", sessionId |-> p.sessionId,
                               status |-> 408, connected |-> FALSE,
                               error |-> "Tempo esgotado ao esperar pelo QR code"])
       ELSE /\ pollers' = BagAdd(BagRemove(pollers, p),
                                 [p EXCEPT !.attempts = @ + 1])
            /\ out' = Silent
    /\ UNCHANGED <<connections, recentMessages, qrCodes, handles, starts,
                   renders, logouts, nextMsg, arrived, returned, sends,
                   callers>>

\* One tick of the checkQR interval (205-217).
checkQR(p) ==
    /\ OwnTurn
    /\ pollers[p] > 0
    /\ IF p.sessionId \in DOMAIN qrCodes
       THEN /\ pollers' = BagRemove(pollers, p)
            /\ out' = Respond([op |-> "start-session", sessionId |-> p.sessionId,
                               status |-> 200, qrCode |-> qrCodes[p.sessionId]])
       ELSE IF p.attempts >= MaxAttempts
       THEN /\ pollers' = BagRemove(pollers, p)
            /\ out' = Respond([op |-> "start-session", sessionId |-> p.sessionId,
                               status |-> 408, connected |-> FALSE,
                               error |-> "Tempo esgotado ao esperar pelo QR code"])
       ELSE /\ pollers' = BagAdd(BagRemove(pollers, p),
                                 [p EXCEPT !.attempts = @ + 1])
            /\ out' = Silent
    /\ UNCHANGED <<connections, recentMessages, qrCodes, handles, starts,
                   renders, logouts, nextMsg, arrived, returned, sends,
                   callers>>

\* Line 233: recentMessages[sessionId] || [].
Buffered(sessionId) ==
    IF sessionId \in DOMAIN recentMessages THEN recentMessages[sessionId] ELSE << >>

\* A drain that forgets line 234.
DrainedKeepsAll(buffer) == buffer

\* Line 234: what the drain leaves behind.
Drained(buffer) == << >>

Ids(messages) == {messages[i].id : i \in 1..Len(messages)}

\* GET /api/messages/:sessionId (225-237).
GetMessages(sessionId) ==
    /\ OwnTurn
    /\ IF sessionId \notin DOMAIN connections
       THEN /\ out' = Respond([op |-> "messages", sessionId |-> sessionId,
                               status |-> 404, error |-> "Sessao nao encontrada"])
            /\ UNCHANGED <<recentMessages, arrived, returned>>
       ELSE /\ out' = Respond([op |-> "messages", sessionId |-> sessionId,
                               status |-> 200, messages |-> Buffered(sessionId)])
            /\ recentMessages' = Put(recentMessages, sessionId,
                                     Drained(Buffered(sessionId)))
            /\ arrived' = [arrived EXCEPT ![sessionId] = << >>]
            /\ returned' = returned \cup Ids(Buffered(sessionId))
    /\ UNCHANGED <<connections, qrCodes, handles, starts, renders, logouts,
                   pollers, nextMsg, sends, callers>>

\* A disconnect that treats a missing session as an error, as the messages
\* route does.
DisconnectOfUnknownFails(sessionId) ==
    [op |-> "disconnect", sessionId |-> sessionId, status |-> 404,
     error |-> "Sessao nao encontrada"]

\* Lines 243-245: the answer to a disconnect of a session that is not stored.
AlreadyDisconnected(sessionId) ==
    [op |-> "disconnect", sessionId |-> sessionId, status |-> 200,
     success |-> TRUE, message |-> "Sessao ja esta desconectada"]

\* POST /api/disconnect/:sessionId (240-249), up to the await of line 249.
Disconnect(sessionId) ==
    /\ OwnTurn
    /\ IF sessionId \notin DOMAIN connections
       THEN /\ out' = Respond(AlreadyDisconnected(sessionId))
            /\ UNCHANGED logouts
       ELSE /\ logouts' = logouts \cup {[sessionId |-> sessionId,
                                         sock |-> connections[sessionId]]}
            /\ out' = Silent
    /\ UNCHANGED <<connections, recentMessages, qrCodes, handles, starts,
                   renders, pollers, nextMsg, arrived, returned, sends,
                   callers>>

\* Lines 251-255: sock.logout() resolved, which ends that socket.
LogoutResolve(lo) ==
    /\ lo \in logouts
    /\ logouts' = logouts \ {lo}
    /\ LET r == RemoveSession(Registry, lo.sessionId)
       IN /\ connections' = r.connections
          /\ qrCodes' = r.qrCodes
          /\ recentMessages' = r.recentMessages
          /\ arrived' = r.arrived
    /\ handles' = IF Live(lo.sock)
                  THEN [handles EXCEPT ![lo.sock].conn = "close",
                                       ![lo.sock].code = LoggedOut]
                  ELSE handles
    /\ out' = Respond([op |-> "disconnect", sessionId |-> lo.sessionId,
                       status |-> 200, success |-> TRUE])
    /\ UNCHANGED <<starts, renders, pollers, nextMsg, returned, sends, callers>>

\* Lines 256-259: sock.logout() rejected.
LogoutReject(lo) ==
    /\ lo \in logouts
    /\ logouts' = logouts \ {lo}
    /\ out' = Respond([op |-> "disconnect", sessionId |-> lo.sessionId,
                       status |-> 500, error |-> "logout failed"])
    /\ UNCHANGED <<connections, recentMessages, qrCodes, handles, starts,
                   renders, pollers, nextMsg, arrived, returned, sends,
                   callers>>

\* --------------------------------------------- send-message (263-282)
\* A destination is a string, here the sequence of its characters; a body
\* without a string `number` makes number.replace throw.
Digits == {"0", "1", "2", "3", "4", "5", "6", "7", "8", "9"}
Suffix == <<"@s.whatsapp.net">>
IsDigit(c) == c \in Digits

\* A formatter that only strips blanks.
FormatNumberStripsBlanks(number) ==
    SelectSeq(number, LAMBDA c : c # " ") \o Suffix

\* Line 274: `${number.replace(/[^0-9]/g, '')}@s.whatsapp.net`.
FormatNumber(number) == SelectSeq(number, IsDigit) \o Suffix

\* POST /api/send-message/:sessionId (263-276), up to the await of line 276.
SendMessage(sessionId, body) ==
    /\ OwnTurn
    /\ IF sessionId \notin DOMAIN connections
       THEN /\ out' = Respond([op |-> "send-message", sessionId |-> sessionId,
                               status |-> 404, success |-> FALSE,
                               message |-> "Sessao nao encontrada"])
            /\ UNCHANGED sends
       ELSE IF ~body.isString
       THEN /\ out' = Respond([op |-> "send-message", sessionId |-> sessionId,
                               status |-> 500, success |-> FALSE,
                               message |-> "Erro ao enviar mensagem"])
            /\ UNCHANGED sends
       ELSE /\ sends' = sends \cup {[sessionId |-> sessionId,
                                     sock |-> connections[sessionId],
                                     number |-> body.number,
                                     jid |-> FormatNumber(body.number),
                                     text |-> body.message]}
            /\ out' = Silent
    /\ UNCHANGED <<connections, recentMessages, qrCodes, handles, starts,
                   renders, logouts, pollers, nextMsg, arrived, returned,
                   callers>>

\* Lines 276-277: connection.sendMessage resolved.
SendResolve(sd) ==
    /\ sd \in sends
    /\ sends' = sends \ {sd}
    /\ out' = Respond([op |-> "send-message", sessionId |-> sd.sessionId,
                       status |-> 200, success |-> TRUE])
    /\ UNCHANGED <<connections, recentMessages, qrCodes, handles, starts,
                   renders, logouts, pollers, nextMsg, arrived, returned,
                   callers>>

\* Lines 278-281: connection.sendMessage rejected.
SendReject(sd) ==
    /\ sd \in sends
    /\ sends' = sends \ {sd}
    /\ out' = Respond([op |-> "send-message", sessionId |-> sd.sessionId,
                       status |-> 500, success |-> FALSE,
                       message |-> "Erro ao enviar mensagem"])
    /\ UNCHANGED <<connections, recentMessages, qrCodes, handles, starts,
                   renders, logouts, pollers, nextMsg, arrived, returned,
                   callers>>

\* ------------------------------------------------------- push channel
\* socket.on('start-session') (288-291), up to the await of line 291.
SocketStartSession(socketId, sessionId) ==
    /\ OwnTurn
    /\ starts' = startWhatsAppConnection(starts, sessionId, socketId, "push")
    /\ out' = Silent
    /\ UNCHANGED <<connections, recentMessages, qrCodes, handles, renders,
                   logouts, pollers, nextMsg, arrived, returned, sends,
                   callers>>

\* ------------------------------------------------------ specification
\* What the bounds allow the callers and the engine to do next.
MayStart == Started < MaxHandles
\* One rendering per socket and one disconnect per session are in progress
\* at a time.
MayRender(h) == \A rd \in renders : rd.handle # h
MayLogout(sessionId) == \A lo \in logouts : lo.sessionId # sessionId
MayDeliver(data, max) ==
    nextMsg + (IF data.isArray THEN Len(newMessages(data.messages)) ELSE 0)
        <= max + 1
Batches == {Batch(sh, nextMsg) : sh \in Shapes} \cup {NotABatch}
MayEmit(h, u) ==
    /\ u.qr # NoQr => MayRender(h)
    /\ (u.connection = "close" /\ ShouldReconnect(u.statusCode)) => MayStart

\* The registry of one session under its callers and the protocol engine.
\* The ticks of checkQR, which read qrCodes and write only their own
\* response, are left out here.
Next ==
    \/ \E s \in Tenants : GetStatus(s)
    \/ \E s \in Tenants :
          /\ s \in DOMAIN connections \/ MayStart
          /\ HttpStartSession(s)
    \/ \E c \in Clients, s \in Tenants : MayStart /\ SocketStartSession(c, s)
    \/ \E st \in StartRecs : StartResolve(st)
    \/ \E st \in StartRecs : StartReject(st)
    \/ StartSessionResume
    \/ \E h \in HandleIds, u \in Updates : MayEmit(h, u) /\ ConnectionUpdate(h, u)
    \/ \E rd \in renders : RenderResolve(rd)
    \/ \E h \in HandleIds, data \in Batches :
          MayDeliver(data, MaxMessages) /\ MessagesUpsert(h, data)
    \/ \E s \in Tenants : GetMessages(s)
    \/ \E s \in Tenants :
          /\ s \in DOMAIN connections => MayLogout(s)
          /\ Disconnect(s)
    \/ \E lo \in logouts : LogoutResolve(lo)
    \/ \E lo \in logouts : LogoutReject(lo)

Spec == Init /\ [][Next]_vars

\* ------------------------------------------ the pull-style client alone
\* Inbound messages delivered in one run of SpecPull.
MaxInbound == 60

\* One session started once over HTTP (later start requests find it stored
\* or gone), its socket opening and closing, inbound batches, drains and
\* disconnects.
NextPull ==
    \/ \E s \in Tenants :
          /\ s \in DOMAIN connections \/ Started = 0
          /\ HttpStartSession(s)
    \/ \E st \in StartRecs : StartResolve(st)
    \/ StartSessionResume
    \/ \E h \in HandleIds, u \in {OpenUpdate, CloseUpdate(LoggedOut)} :
          ConnectionUpdate(h, u)
    \/ \E h \in HandleIds, data \in Batches :
          MayDeliver(data, MaxInbound) /\ MessagesUpsert(h, data)
    \/ \E s \in Tenants : GetMessages(s)
    \/ \E s \in Tenants :
          /\ s \in DOMAIN connections => MayLogout(s)
          /\ Disconnect(s)
    \/ \E lo \in logouts : LogoutResolve(lo)
    \/ \E lo \in logouts : LogoutReject(lo)

SpecPull == Init /\ [][NextPull]_vars

\* ------------------------------------------------ reconnection, with progress
\* Push-channel starts and engine events of one session; the credential load
\* of a suspended startWhatsAppConnection settles, resolved or rejected, and
\* the call is resumed, which the event loop does for every settled promise.
\* The engine reports in turns of its own.
NextReconnect ==
    \/ \E c \in Clients, s \in Tenants : MayStart /\ SocketStartSession(c, s)
    \/ \E st \in StartRecs : StartResolve(st)
    \/ \E st \in StartRecs : StartReject(st)
    \/ StartSessionResume
    \/ \E h \in HandleIds, u \in Updates :
          OwnTurn /\ MayEmit(h, u) /\ ConnectionUpdate(h, u)
    \/ \E rd \in renders : RenderResolve(rd)

SpecReconnect ==
    /\ Init
    /\ [][NextReconnect]_vars
    /\ \A st \in StartRecs : WF_vars(StartResolve(st) \/ StartReject(st))

\* ------------------------------------------------------- push delivery
\* One session started over HTTP first or once by each of two push clients,
\* and reconnected once, from its first socket: its sockets' connection
\* events, one rendering at a time, and inbound batches of one message to
\* buffer or of one message of the account's own, delivered while the
\* buffer is empty.  The engine reports in turns of its own.
PushUpdates == {QrUpdate("qrA"), OpenUpdate, CloseUpdate(428),
                CloseUpdate(LoggedOut)}
PushBatches == {Batch(<<"in">>, nextMsg), Batch(<<"fromMe">>, nextMsg)}
\* The push client has started nothing yet.
FirstStartBy(socketId) ==
    /\ \A h \in HandleIds : handles[h].socketId # socketId
    /\ \A st \in StartRecs : st.socketId = socketId => starts[st] = 0

\* The socket is the only one created so far and no start is suspended.
OnlySocket(h) ==
    /\ Len(handles) = 1
    /\ \A st \in StartRecs : starts[st] = 0

NextPush ==
    \/ \E s \in Tenants :
          /\ s \in DOMAIN connections \/ Started = 0
          /\ HttpStartSession(s)
    \/ \E c \in SocketIds, s \in Tenants :
          FirstStartBy(c) /\ MayStart /\ SocketStartSession(c, s)
    \/ \E st \in StartRecs : StartResolve(st)
    \/ StartSessionResume
    \/ \E h \in HandleIds, u \in PushUpdates :
          /\ OwnTurn
          /\ u.qr # NoQr => renders = {}
          /\ (u.connection = "close" /\ ShouldReconnect(u.statusCode))
                => OnlySocket(h)
          /\ ConnectionUpdate(h, u)
    \/ \E rd \in renders : RenderResolve(rd)
    \/ \E h \in HandleIds, data \in PushBatches :
          /\ OwnTurn
          /\ Buffered(handles[h].sessionId) = << >>
          /\ MessagesUpsert(h, data)

SpecPush == Init /\ [][NextPush]_vars

\* ------------------------------------------------------ inbound batches
\* One session started once, over HTTP or by a push client, its socket
\* opening and being logged out, inbound batches of every shape, drains and
\* status requests.
NextInbound ==
    \/ \E s \in Tenants :
          /\ s \in DOMAIN connections \/ Started = 0
          /\ HttpStartSession(s)
    \/ \E c \in SocketIds, s \in Tenants :
          Started = 0 /\ SocketStartSession(c, s)
    \/ \E st \in StartRecs : StartResolve(st)
    \/ StartSessionResume
    \/ \E h \in HandleIds, u \in {OpenUpdate, CloseUpdate(LoggedOut)} :
          ConnectionUpdate(h, u)
    \/ \E h \in HandleIds, data \in Batches :
          MayDeliver(data, MaxMessages) /\ MessagesUpsert(h, data)
    \/ \E s \in Tenants : GetMessages(s)
    \/ \E s \in Tenants : GetStatus(s)

SpecInbound == Init /\ [][NextInbound]_vars

\* ------------------------------------------------------ sending messages
\* Length of the destinations a client sends, over the characters below, and
\* the destination of spec.md section 8.
MaxNumberLen == 3
Chars == {"1", "5", "+", " "}
Example == <<"+", "1", " ", "(", "5", "5", "5", ")", " ",
             "1", "2", "3", "-", "4", "5", "6", "7">>
Numbers == UNION {[1..n -> Chars] : n \in 0..MaxNumberLen} \cup {Example}
Bodies == {[isString |-> TRUE, number |-> d, message |-> "hi"] : d \in Numbers}
          \cup {[isString |-> FALSE, number |-> << >>, message |-> "hi"]}

\* One session started once over HTTP, its socket opening and being logged
\* out, and send requests, one in flight at a time.
NextSend ==
    \/ \E s \in Tenants :
          /\ s \in DOMAIN connections \/ Started = 0
          /\ HttpStartSession(s)
    \/ \E st \in StartRecs : StartResolve(st)
    \/ StartSessionResume
    \/ \E h \in HandleIds, u \in {OpenUpdate, CloseUpdate(LoggedOut)} :
          ConnectionUpdate(h, u)
    \/ \E s \in Tenants, body \in Bodies : sends = {} /\ SendMessage(s, body)
    \/ \E sd \in sends : SendResolve(sd)
    \/ \E sd \in sends : SendReject(sd)

SpecSend == Init /\ [][NextSend]_vars

\* -------------------------------------------------------- two sessions
\* No start of the session has been requested yet.
NeverStarted(sessionId) ==
    /\ HandlesOf(sessionId) = {}
    /\ \A st \in StartRecs : st.sessionId = sessionId => starts[st] = 0

\* The session has one socket and no start in progress.
StartedOnce(sessionId) ==
    /\ Cardinality(HandlesOf(sessionId)) = 1
    /\ \A st \in StartRecs : st.sessionId = sessionId => starts[st] = 0

\* Nothing is suspended: no start, rendering, logout or send is in progress
\* and no caller of a start is waiting to go on.
Idle ==
    /\ \A st \in StartRecs : starts[st] = 0
    /\ callers = << >>
    /\ renders = {}
    /\ logouts = {}
    /\ sends = {}

\* Session s1 running its whole lifecycle, started once by a push client and
\* reconnected at most once, next to session s2, which a push client starts
\* and which pairs, opens, receives and is drained: engine events, inbound
\* batches, status and start requests, drains, sends and disconnects.  A
\* request or an engine event that suspends arrives when nothing else is
\* suspended.
NextIsolation ==
    \/ \E s \in Sessions : GetStatus(s)
    \/ \E s \in Tenants : s \in DOMAIN connections /\ HttpStartSession(s)
    \/ \E c \in Clients, s \in Sessions :
          Idle /\ NeverStarted(s) /\ SocketStartSession(c, s)
    \/ \E st \in StartRecs : StartResolve(st)
    \/ StartSessionResume
    \/ \E h \in HandleIds, u \in PushUpdates :
          /\ Idle
          /\ u.connection = "close" => handles[h].sessionId \in Tenants
          /\ (u.connection = "close" /\ ShouldReconnect(u.statusCode))
                => StartedOnce(handles[h].sessionId)
          /\ ConnectionUpdate(h, u)
    \/ \E rd \in renders : RenderResolve(rd)
    \/ \E h \in HandleIds :
          /\ MayDeliver(Batch(<<"in">>, nextMsg), MaxMessages)
          /\ MessagesUpsert(h, Batch(<<"in">>, nextMsg))
    \/ \E s \in Sessions : GetMessages(s)
    \/ \E s \in Tenants :
          Idle /\ s \in DOMAIN connections /\ Disconnect(s)
    \/ \E lo \in logouts : LogoutResolve(lo)
    \/ \E s \in Tenants :
          /\ Idle
          /\ s \in DOMAIN connections
          /\ SendMessage(s, [isString |-> TRUE, number |-> Example,
                             message |-> "hi"])
    \/ \E sd \in sends : SendResolve(sd)

SpecIsolation == Init /\ [][NextIsolation]_vars

\* ------------------------------------------- the wait for the pairing image
\* One session started once over HTTP (later start requests find it
\* stored or gone), its socket pairing, opening and being logged out, and
\* the ticks of its checkQR interval; while an interval is running the
\* timer keeps firing ticks.
NextPoll ==
    \/ \E s \in Tenants :
          /\ s \in DOMAIN connections \/ Started = 0
          /\ HttpStartSession(s)
    \/ \E st \in StartRecs : StartResolve(st)
    \/ StartSessionResume
    \/ \E h \in HandleIds,
          u \in {QrUpdate(q) : q \in QrPayloads}
                 \cup {OpenUpdate, CloseUpdate(LoggedOut)} :
          MayEmit(h, u) /\ ConnectionUpdate(h, u)
    \/ \E rd \in renders : RenderResolve(rd)
    \/ \E p \in PollerRecs : checkQR(p)

SpecPoll ==
    /\ Init
    /\ [][NextPoll]_vars
    /\ WF_vars(\E p \in PollerRecs : checkQR(p))

\* --------------------------------- the push-only variant (unnamed/part_000)
\* io.to(socketId).emit(...), unguarded.
Emit(r, socketId, event, payload) ==
    [r EXCEPT !.emits = Append(@, Event(socketId, event, payload))]

\* part_000:79-83, after the rendering of line 81 has resolved.
LegacyQrBranch(r, h, update) ==
    IF update.qr # NoQr
    THEN Emit(r, handles[h].socketId, "qr", [qrCode |-> toDataURL(update.qr)])
    ELSE r

\* part_000:85-91.
LegacyOpenBranch(r, h, update) ==
    IF update.connection = "open"
    THEN Emit(r, handles[h].socketId, "connection-open",
              [user |-> Me(handles[h].sessionId), connected |-> TRUE])
    ELSE r

\* part_000:93-107.
LegacyCloseBranch(r, h, update) ==
    IF update.connection = "close"
    THEN LET shouldReconnect == update.statusCode # LoggedOut
             told == Emit(r, handles[h].socketId, "connection-close",
                          [shouldReconnect |-> shouldReconnect,
                           statusCode |-> update.statusCode])
         IN IF shouldReconnect
            THEN [told EXCEPT !.starts =
                      startWhatsAppConnection(@, handles[h].sessionId,
                                              handles[h].socketId, "reconnect")]
            ELSE told
    ELSE r

\* part_000:75-108 for one update.
LegacyConnectionUpdate(h, update) ==
    /\ EngineMayEmit(h, update)
    /\ IF update.qr # NoQr
       THEN /\ renders' = renders \cup {[handle |-> h, update |-> update]}
            /\ out' = Silent
            /\ UNCHANGED <<connections, recentMessages, qrCodes, starts, arrived>>
       ELSE /\ Commit(LegacyCloseBranch(LegacyOpenBranch(Registry, h, update),
                                        h, update))
            /\ UNCHANGED renders
    /\ handles' = EngineAfter(h, update)
    /\ UNCHANGED <<logouts, pollers, nextMsg, returned, sends, callers>>

\* part_000:81-107: qrcode.toDataURL has resolved and the callback goes on.
LegacyRenderResolve(rd) ==
    /\ rd \in renders
    /\ renders' = renders \ {rd}
    /\ Commit(LegacyCloseBranch(
                  LegacyOpenBranch(LegacyQrBranch(Registry, rd.handle, rd.update),
                                   rd.handle, rd.update),
                  rd.handle, rd.update))
    /\ UNCHANGED <<handles, logouts, pollers, nextMsg, returned, sends,
                   callers>>

\* part_000:114-117.
LegacyMessagesUpsert(h, data) ==
    /\ h \in HandleIds
    /\ handles[h].conn = "open"
    /\ nextMsg' = nextMsg + (IF data.isArray THEN Len(newMessages(data.messages))
                             ELSE 0)
    /\ out' = Emit(Silent, handles[h].socketId, "messages", data)
    /\ UNCHANGED <<connections, recentMessages, qrCodes, handles, starts,
                   renders, logouts, pollers, arrived, returned, sends,
                   callers>>

\* GET /api/status/:sessionId (part_000:125-134).
LegacyGetStatus(sessionId) ==
    /\ OwnTurn
    /\ out' = Respond([op |-> "status", sessionId |-> sessionId, status |-> 200,
                       connected |-> (sessionId \in DOMAIN connections)])
    /\ UNCHANGED <<connections, recentMessages, qrCodes, handles, starts,
                   renders, logouts, pollers, nextMsg, arrived, returned,
                   sends, callers>>

\* part_000 has no HTTP start route: every session is started by
\* socket.on('start-session') (part_000:162-171), whose text is that of
\* server.js:288-297.
NextLegacy ==
    \/ \E s \in Tenants : LegacyGetStatus(s)
    \/ \E c \in Clients, s \in Tenants : MayStart /\ SocketStartSession(c, s)
    \/ \E st \in StartRecs : StartResolve(st)
    \/ \E st \in StartRecs : StartReject(st)
    \/ StartSessionResume
    \/ \E h \in HandleIds, u \in Updates :
          MayEmit(h, u) /\ LegacyConnectionUpdate(h, u)
    \/ \E rd \in renders : LegacyRenderResolve(rd)
    \/ \E h \in HandleIds, data \in Batches :
          MayDeliver(data, MaxMessages) /\ LegacyMessagesUpsert(h, data)

SpecLegacy == Init /\ [][NextLegacy]_vars

\* ------------------------------------------------------------ claims
\* The lifecycle state of spec.md section 3, read off the registry: Absent
\* without an entry, Connected once the stored socket has reported open,
\* Pairing otherwise.
SessionState(sessionId) ==
    IF sessionId \notin DOMAIN connections THEN "Absent"
    ELSE IF handles[connections[sessionId]].conn = "open" THEN "Connected"
    ELSE "Pairing"

\* C1: two start calls for one session, the second made before the first
\* has stored its handle, leave exactly one connection handle: no session
\* ever has two live handles.
C1_OneLiveHandle ==
    \A s \in Sessions : Cardinality(LiveHandlesOf(s)) <= 1

\* C2: after a start and before any close event, getStatus answers
\* connected=false while the stored socket is still pairing and
\* connected=true only once it has reported open.
C2_ConnectedOnlyAfterOpen ==
    (/\ out.resp.op = "status"
     /\ out.resp.sessionId \in DOMAIN connections
     /\ \A h \in HandlesOf(out.resp.sessionId) : Live(h))
    => (out.resp.connected <=> SessionState(out.resp.sessionId) = "Connected")

\* The socket created last for a session, and whether a start of the session
\* is still suspended.
LastHandleOf(sessionId) ==
    CHOOSE h \in HandlesOf(sessionId) : \A g \in HandlesOf(sessionId) : g <= h
StartPending(sessionId) ==
    \E st \in StartRecs : st.sessionId = sessionId /\ starts[st] > 0

\* C3: once the close event with the logged-out status code of a session's
\* socket has been processed, and until a new start is requested, the
\* session has no registry entry and getStatus answers connected=false.
C3_LoggedOutCloseRemoves ==
    \A s \in Sessions :
        (/\ HandlesOf(s) # {}
         /\ handles[LastHandleOf(s)].conn = "close"
         /\ handles[LastHandleOf(s)].code = LoggedOut
         /\ ~StartPending(s))
        => /\ s \notin DOMAIN connections
           /\ (out.resp.op = "status" /\ out.resp.sessionId = s)
              => ~out.resp.connected

\* The suspended reconnection a close of socket h leaves behind.
ReconnectOf(h) ==
    [sessionId |-> handles[h].sessionId, socketId |-> handles[h].socketId,
     origin |-> "reconnect"]
ReconnectRecs == {st \in StartRecs : st.origin = "reconnect"}

\* C4: processing a close event whose status code is not the logged-out one
\* keeps the registry entry and calls startWhatsAppConnection exactly once
\* more with the session's identifier and push target; every such call
\* eventually ends; and when it ends it has created exactly one socket and
\* stored it as the session's entry.
C4_ReconnectableCloseRestarts ==
    /\ [][\A h \in HandleIds, code \in StatusCodes :
             (code # LoggedOut /\ ConnectionUpdate(h, CloseUpdate(code)))
             => /\ connections' = connections
                /\ handles'[h].conn = "close"
                /\ Len(handles') = Len(handles)
                /\ starts' = BagAdd(starts, ReconnectOf(h))]_vars
    /\ [][\A st \in ReconnectRecs :
             starts'[st] < starts[st]
             => /\ Len(handles') = Len(handles) + 1
                /\ SubSeq(handles', 1, Len(handles)) = handles
                /\ handles'[Len(handles')].conn = "connecting"
                /\ handles'[Len(handles')].sessionId = st.sessionId
                /\ handles'[Len(handles')].socketId = st.socketId
                /\ st.sessionId \in DOMAIN connections'
                /\ connections'[st.sessionId] = Len(handles')]_vars
    /\ \A st \in ReconnectRecs : (starts[st] > 0) ~> (starts[st] = 0)

\* The last n elements of seq, all of it when it is shorter.
MostRecent(seq, n) ==
    LET k == IF Len(seq) < n THEN Len(seq) ELSE n
    IN [i \in 1..k |-> seq[Len(seq) - k + i]]

\* C5: a session's buffer never holds more than 50 messages, and holds the
\* most recent 50 kept messages that arrived since it was last emptied,
\* oldest first.
C5_BufferIsLast50 ==
    \A s \in DOMAIN recentMessages :
        /\ Len(recentMessages[s]) <= 50
        /\ recentMessages[s] = MostRecent(arrived[s], 50)

\* Sixty kept messages arrived without a drain: the buffer holds the 11th to
\* the 60th.
C5_Witness ==
    \E s \in DOMAIN recentMessages :
        /\ Len(arrived[s]) = 60
        /\ [i \in 1..Len(recentMessages[s]) |-> recentMessages[s][i].id]
               = [i \in 1..50 |-> i + 10]

\* The ids a session's buffer holds.
BufferedIds(sessionId) ==
    IF sessionId \in DOMAIN recentMessages
    THEN {recentMessages[sessionId][i].id : i \in 1..Len(recentMessages[sessionId])}
    ELSE {}

\* C6: a drain of a stored session answers with the whole buffer as it was
\* and leaves the buffer empty in the same step, so that no message is
\* returned by two drains and none that arrives around a drain is dropped
\* by it.
C6_DrainIsAtomic ==
    /\ [][\A s \in Sessions :
             (s \in DOMAIN connections /\ GetMessages(s))
             => /\ out'.resp.status = 200
                /\ out'.resp.messages =
                       (IF s \in DOMAIN recentMessages
                        THEN recentMessages[s] ELSE << >>)
                /\ s \in DOMAIN recentMessages'
                /\ recentMessages'[s] = << >>
                /\ \A i \in 1..Len(out'.resp.messages) :
                       out'.resp.messages[i].id \notin returned]_vars
    /\ [](\A s \in Sessions : BufferedIds(s) \cap returned = {})

\* A drain has answered with messages, earlier drains had returned others,
\* and the buffer is empty.
C6_Witness ==
    /\ out.resp.op = "messages"
    /\ out.resp.status = 200
    /\ Len(out.resp.messages) > 1
    /\ returned \ {out.resp.messages[i].id : i \in 1..Len(out.resp.messages)} # {}
    /\ recentMessages[out.resp.sessionId] = << >>

\* C7: when a disconnect that found an entry and called logout has been
\* answered, whether logout succeeded or failed, the session has no entry,
\* no pairing image and no message buffer.
C7_DisconnectRemoves ==
    (out.resp.op = "disconnect" /\ "message" \notin DOMAIN out.resp)
    => /\ out.resp.sessionId \notin DOMAIN connections
       /\ out.resp.sessionId \notin DOMAIN qrCodes
       /\ out.resp.sessionId \notin DOMAIN recentMessages

\* C8: a disconnect of a session without a registry entry answers success,
\* calls no logout and leaves the registry, the images, the buffers and the
\* sockets as they were.
C8_DisconnectOfAbsentSucceeds ==
    [][\A s \in Sessions :
          (s \notin DOMAIN connections /\ Disconnect(s))
          => /\ out'.resp.op = "disconnect"
             /\ out'.resp.status = 200
             /\ "error" \notin DOMAIN out'.resp
             /\ out'.resp.success
             /\ UNCHANGED <<connections, recentMessages, qrCodes, handles,
                            starts, renders, logouts, pollers>>]_vars

\* A session that was connected and then logged out by a disconnect is
\* disconnected again, and the answer is success.
C8_Witness ==
    /\ out.resp.op = "disconnect"
    /\ "message" \in DOMAIN out.resp
    /\ out.resp.success
    /\ out.resp.sessionId \notin DOMAIN connections
    /\ \E h \in HandlesOf(out.resp.sessionId) :
           handles[h].conn = "close" /\ handles[h].code = LoggedOut
    /\ logouts = {}

\* C9: a pairing image is stored for a session only while it is Pairing.
C9_ImageOnlyWhilePairing ==
    \A s \in Sessions : s \in DOMAIN qrCodes => SessionState(s) = "Pairing"

\* C10: a start request for a session that has an entry changes nothing,
\* over HTTP and over the push channel alike.
C10_StartOfActiveIsNoOp ==
    [][\A s \in Sessions :
          (/\ s \in DOMAIN connections
           /\ \/ HttpStartSession(s)
              \/ \E c \in SocketIds : SocketStartSession(c, s))
          => UNCHANGED <<connections, handles, starts, qrCodes, recentMessages>>
      ]_vars

\* C11: the effects of a session's events appear in the order the engine
\* emitted them: the open or close of a socket is never applied while the
\* effects of a QR event the engine emitted earlier for that socket (the
\* stored image, the 'qr' push) are still to come.
C11_EventsInOrder ==
    \A rd \in renders : handles[rd.handle].conn = "connecting"

\* C12: every running checkQR interval stops, and it stops only by sending
\* its one response: the stored pairing image at the first tick that finds
\* one, else status 408 with connected=false at the tick that finds the
\* attempts counter at 10; a tick that answers removes its interval.
C12_PollerAnswersOnce ==
    /\ [][\A p \in PollerRecs :
             checkQR(p)
             => IF p.sessionId \in DOMAIN qrCodes
                THEN /\ out'.resp.status = 200
                     /\ out'.resp.qrCode = qrCodes[p.sessionId]
                     /\ pollers' = [pollers EXCEPT ![p] = @ - 1]
                ELSE IF p.attempts = 10
                THEN /\ out'.resp.status = 408
                     /\ out'.resp.status # 404
                     /\ ~out'.resp.connected
                     /\ pollers' = [pollers EXCEPT ![p] = @ - 1]
                ELSE /\ out'.resp.op = "none"
                     /\ p.attempts < 10
                     /\ pollers'[p] = pollers[p] - 1
                     /\ pollers'[[p EXCEPT !.attempts = @ + 1]]
                            = pollers[[p EXCEPT !.attempts = @ + 1]] + 1]_vars
    /\ (\E p \in PollerRecs : pollers[p] > 0)
           ~> (\A p \in PollerRecs : pollers[p] = 0)

\* An interval has just answered 408 after finding no image at any tick,
\* and no interval is left running.
C12_Witness ==
    /\ out.resp.op = "start-session"
    /\ out.resp.status = 408
    /\ \A p \in PollerRecs : pollers[p] = 0
    /\ out.resp.sessionId \notin DOMAIN qrCodes

\* C13: a start that fails is reported to a caller: no rejection of
\* startWhatsAppConnection is left without a handler, whether the start was
\* requested by a caller or re-invoked by a reconnectable close.
C13_StartFailureIsSurfaced ==
    out.resp.op # "unhandledRejection"

\* The digits of a destination, in order.
RECURSIVE OnlyDigits(_)
OnlyDigits(d) ==
    IF d = << >> THEN << >>
    ELSE IF Head(d) \in {"0", "1", "2", "3", "4", "5", "6", "7", "8", "9"}
         THEN <<Head(d)>> \o OnlyDigits(Tail(d))
         ELSE OnlyDigits(Tail(d))

\* C14: a send request for a stored session hands the session's socket the
\* address made of the digits of the destination, in order, followed by
\* '@s.whatsapp.net'; for a session that is not stored it answers 404 and
\* sends nothing; a send the socket rejects is answered 500 with the generic
\* message and changes no registry state.
C14_SendFormatsAddress ==
    /\ [][\A s \in Sessions, body \in Bodies :
             SendMessage(s, body)
             => IF s \notin DOMAIN connections
                THEN /\ out'.resp.status = 404
                     /\ sends' = sends
                ELSE body.isString
                     => \E sd \in sends' \ sends :
                           /\ sd.sock = connections[s]
                           /\ sd.jid = OnlyDigits(body.number)
                                           \o <<"@s.whatsapp.net">>
                           /\ sends' = sends \cup {sd}]_vars
    /\ [][\A sd \in sends :
             SendReject(sd)
             => /\ out'.resp.status = 500
                /\ out'.resp.message = "Erro ao enviar mensagem"
                /\ UNCHANGED <<connections, recentMessages, qrCodes,
                               handles>>]_vars

\* '+1 (555) 123-4567' is on its way as 15551234567@s.whatsapp.net.
C14_Witness ==
    \E sd \in sends :
        /\ sd.number = <<"+", "1", " ", "(", "5", "5", "5", ")", " ",
                         "1", "2", "3", "-", "4", "5", "6", "7">>
        /\ sd.jid = <<"1", "5", "5", "5", "1", "2", "3", "4", "5", "6", "7",
                      "@s.whatsapp.net">>

\* C15: a session has a message buffer only while it has a registry entry.
C15_BufferOnlyWithEntry ==
    \A s \in DOMAIN recentMessages : s \in DOMAIN connections

\* The events a step pushed.
Pushed(o) == {o.emits[i] : i \in 1..Len(o.emits)}

\* C16: whatever a socket's callbacks push goes to the push identifier of
\* the start that created the socket and to nobody else: a socket takes the
\* identifier of the start that creates it, a reconnection takes that of the
\* socket that closed, a socket started over HTTP pushes nothing while its
\* image is still stored and its inbound messages are still buffered, and a
\* socket with a push identifier pushes the image it stores and the batch
\* it receives.
C16_PushGoesToStarter ==
    /\ [][\A e \in Pushed(out') :
             /\ e.to \in SocketIds
             /\ \A h \in HandleIds :
                   (\/ \E u \in Updates : ConnectionUpdate(h, u)
                    \/ \E rd \in renders : rd.handle = h /\ RenderResolve(rd)
                    \/ \E data \in Batches : MessagesUpsert(h, data))
                   => e.to = handles[h].socketId]_vars
    /\ [][\A rd \in renders :
             RenderResolve(rd)
             => /\ handles[rd.handle].sessionId \in DOMAIN qrCodes'
                   \/ rd.update.connection # "undefined"
                /\ handles[rd.handle].socketId \in SocketIds
                   => \E e \in Pushed(out') :
                         /\ e.event = "qr"
                         /\ e.to = handles[rd.handle].socketId]_vars
    /\ [][\A h \in HandleIds, data \in Batches :
             MessagesUpsert(h, data)
             => LET sessionId == handles[h].sessionId
                    before == IF sessionId \in DOMAIN recentMessages
                              THEN recentMessages[sessionId]
                              ELSE << >>
                    inbound == SelectSeq(data.messages,
                                         LAMBDA m : m.key.present
                                                    /\ m.key.fromMe = FALSE)
                IN /\ sessionId \in DOMAIN recentMessages'
                   /\ recentMessages'[sessionId] = before \o inbound
                   /\ handles[h].socketId = NoSocket => out'.emits = << >>
                   /\ handles[h].socketId \in SocketIds
                      => out'.emits = <<Event(handles[h].socketId,
                                              "messages", data)>>]_vars
    /\ [][\A rd \in renders :
             (RenderResolve(rd) /\ handles[rd.handle].socketId = NoSocket)
             => out'.emits = << >>]_vars
    /\ [][\A st \in StartRecs :
             StartResolve(st)
             => handles'[Len(handles')].socketId = st.socketId]_vars
    /\ [][\A c \in SocketIds, s \in Sessions :
             SocketStartSession(c, s)
             => starts'[[sessionId |-> s, socketId |-> c, origin |-> "push"]]
                    = starts[[sessionId |-> s, socketId |-> c,
                              origin |-> "push"]] + 1]_vars
    /\ [][\A st \in ReconnectRecs :
             starts'[st] > starts[st]
             => \E h \in HandleIds :
                   /\ handles[h].conn # "close"
                   /\ handles'[h].conn = "close"
                   /\ handles[h].sessionId = st.sessionId
                   /\ handles[h].socketId = st.socketId]_vars

\* A session has an open socket started over HTTP, whose inbound message is
\* buffered, and a socket started by client c2, whose image has just been
\* stored and pushed to c2 alone.
C16_Witness ==
    \E h1, h2 \in HandleIds :
        /\ handles[h1].sessionId = handles[h2].sessionId
        /\ handles[h1].socketId = NoSocket
        /\ handles[h1].conn = "open"
        /\ handles[h2].socketId = "c2"
        /\ handles[h1].sessionId \in DOMAIN recentMessages
        /\ Len(recentMessages[handles[h1].sessionId]) > 0
        /\ handles[h1].sessionId \in DOMAIN qrCodes
        /\ Len(out.emits) = 1
        /\ out.emits[1].event = "qr"
        /\ out.emits[1].to = "c2"

\* C17: a session without an entry gets one only when a start that a caller
\* requested resumes; in particular, after a disconnect has answered
\* success, no reconnection brings the session back.
C17_AbsentUntilCallerStarts ==
    [][\A s \in Sessions :
          (s \notin DOMAIN connections /\ s \in DOMAIN connections')
          => \E st \in StartRecs :
                /\ st.sessionId = s
                /\ st.origin # "reconnect"
                /\ StartResolve(st)]_vars

\* The messages of a batch that carry a key and were not sent by this
\* account, in batch order.
RECURSIVE Accepted(_)
Accepted(messages) ==
    IF messages = << >> THEN << >>
    ELSE IF Head(messages).key.present /\ Head(messages).key.fromMe = FALSE
         THEN <<Head(messages)>> \o Accepted(Tail(messages))
         ELSE Accepted(Tail(messages))

\* C18: an inbound batch appends to the session's buffer exactly its
\* messages that carry a key and are not fromMe, in batch order, and leaves
\* the contents as they were when it has none; a socket with a push
\* identifier pushes the whole batch as it came.
C18_OnlyInboundIsBuffered ==
    [][\A h \in HandleIds, data \in Batches :
          MessagesUpsert(h, data)
          => LET s == handles[h].sessionId
                 old == IF s \in DOMAIN recentMessages
                        THEN recentMessages[s] ELSE << >>
                 new == IF data.isArray THEN Accepted(data.messages) ELSE << >>
             IN /\ s \in DOMAIN recentMessages'
                /\ Len(old \o new) <= 50 => recentMessages'[s] = old \o new
                /\ handles[h].socketId \in SocketIds
                   => out'.emits = <<[to |-> handles[h].socketId,
                                      event |-> "messages",
                                      payload |-> data]>>]_vars

\* A batch of one message sent by this account and one inbound message has
\* been pushed whole, and only the inbound one is in the buffer.
C18_Witness ==
    /\ Len(out.emits) = 1
    /\ out.emits[1].event = "messages"
    /\ Len(out.emits[1].payload.messages) = 2
    /\ out.emits[1].payload.messages[1].key.fromMe
    /\ \E s \in DOMAIN recentMessages :
          /\ Len(recentMessages[s]) > 0
          /\ recentMessages[s][Len(recentMessages[s])]
                 = out.emits[1].payload.messages[2]
          /\ \A i \in 1..Len(recentMessages[s]) :
                ~recentMessages[s][i].key.fromMe

\* The session a step belongs to: the one named by the request, or the one
\* whose socket, suspended start, rendering, logout or send goes on.
ActsFor(A) ==
    \/ GetStatus(A)
    \/ HttpStartSession(A)
    \/ \E c \in SocketIds : SocketStartSession(c, A)
    \/ \E st \in StartRecs : st.sessionId = A /\ StartResolve(st)
    \/ callers # << >> /\ Head(callers).sessionId = A /\ StartSessionResume
    \/ \E h \in HandlesOf(A) :
          \/ \E u \in Updates : ConnectionUpdate(h, u)
          \/ \E data \in Batches : MessagesUpsert(h, data)
    \/ \E rd \in renders :
          handles[rd.handle].sessionId = A /\ RenderResolve(rd)
    \/ GetMessages(A)
    \/ Disconnect(A)
    \/ \E lo \in logouts : lo.sessionId = A /\ LogoutResolve(lo)
    \/ \E body \in Bodies : SendMessage(A, body)
    \/ \E sd \in sends : sd.sessionId = A /\ SendResolve(sd)

\* Session B has the entry, the image and the buffer it had.
SameRegistry(B) ==
    /\ (B \in DOMAIN connections) = (B \in DOMAIN connections')
    /\ B \in DOMAIN connections => connections'[B] = connections[B]
    /\ (B \in DOMAIN qrCodes) = (B \in DOMAIN qrCodes')
    /\ B \in DOMAIN qrCodes => qrCodes'[B] = qrCodes[B]
    /\ (B \in DOMAIN recentMessages) = (B \in DOMAIN recentMessages')
    /\ B \in DOMAIN recentMessages => recentMessages'[B] = recentMessages[B]

\* C19: a step that changes the entry, the image or the buffer of a session
\* is a request or an event of that session and of no other; and a status
\* request changes nothing but its own answer.
C19_SessionsAreIsolated ==
    /\ [][\A B \in Sessions :
             ~SameRegistry(B) => \A A \in Sessions \ {B} : ~ActsFor(A)]_vars
    /\ [][\A s \in Sessions :
             GetStatus(s)
             => UNCHANGED <<connections, recentMessages, qrCodes, handles,
                            starts, renders, logouts, pollers, sends,
                            callers, nextMsg>>]_vars

\* Session s1 has been torn down by a logged-out close while s2 keeps its
\* entry and the message it has buffered.
C19_Witness ==
    /\ "s1" \notin DOMAIN connections
    /\ \E h \in HandlesOf("s1") :
          handles[h].conn = "close" /\ handles[h].code = LoggedOut
    /\ "s2" \in DOMAIN connections
    /\ "s2" \in DOMAIN recentMessages
    /\ Len(recentMessages["s2"]) > 0

====
